---------------------------- MODULE Spec2Model ----------------------------
(***************************************************************************)
(* A model of category-colors: the simulated-annealing palette optimizer   *)
(* of src/src/main.rs (State::optimize and the cost model it evaluates)    *)
(* and the cost primitives of src/src/cost.rs.                             *)
(*                                                                         *)
(* Numbers.  The program computes in f32; the model computes in integers.  *)
(*   - a color channel is in thousandths: 1.0 is 1000, WIGGLE 0.05 is 50;  *)
(*   - a cost (a distance, a Cost value) is in hundredths: 100.0 is 10000; *)
(*   - a total cost is in ten-thousandths (weights are in hundredths);     *)
(*   - a temperature is an f32, a record [m, e] standing for m * 2^e with  *)
(*     2^23 <= m < 2^24, multiplied bit-exactly (round to nearest even).   *)
(***************************************************************************)
EXTENDS Integers, Sequences, FiniteSets, TLC

VARIABLES
    bg_colors,          \* State.bg_colors: the semantic background slots
    bg_color_array,     \* State.bg_color_array: the flat modifiable backgrounds
    fg_colors,          \* State.fg_colors
    target_bg_colors,   \* State.target_bg_colors
    target_fg_colors,   \* State.target_fg_colors
    bufs,               \* optimize's ScratchBuffers
    start_cost,         \* optimize's locals, from here on
    start_state,
    old_cost,
    new_cost,
    old_color,
    temperature,
    n_iterations,
    i,
    pc,                 \* the position in optimize
    report,             \* the Report optimize returns
    pre,                \* history: the palette and old_cost when the current step began
    last,               \* history: the decision of the last finished step, and the
                        \* gen_range calls the step in progress has made
    input,              \* the argument of a cost-primitive call (cost.rs)
    output              \* what that call returned

vars == <<bg_colors, bg_color_array, fg_colors, target_bg_colors, target_fg_colors,
          bufs, start_cost, start_state, old_cost, new_cost, old_color, temperature,
          n_iterations, i, pc, report, pre, last, input, output>>

stateVars == <<bg_colors, bg_color_array, fg_colors, target_bg_colors, target_fg_colors>>

optVars == <<bufs, start_cost, start_state, old_cost, new_cost, old_color, temperature,
             n_iterations, i, pc, report, pre, last>>

-----------------------------------------------------------------------------
(* Bounds of the exploration.                                              *)

\* The longest foreground list a palette is constructed with.
MaxFg == 3

\* The per-index steps explored from the start of a run.
MaxSteps == 1

-----------------------------------------------------------------------------
(* Integer helpers.                                                        *)

Abs(x) == IF x < 0 THEN -x ELSE x

Min(a, b) == IF a < b THEN a ELSE b

Max(a, b) == IF a > b THEN a ELSE b

RECURSIVE Pow2(_)
Pow2(k) == IF k <= 0 THEN 1 ELSE 2 * Pow2(k - 1)

RECURSIVE SqrtSearch(_, _, _)
\* The largest r in lo..hi with r * r <= n (lo * lo <= n is given).
SqrtSearch(n, lo, hi) ==
    IF lo >= hi THEN lo
    ELSE LET mid == (lo + hi + 1) \div 2
         IN IF mid * mid <= n THEN SqrtSearch(n, mid, hi)
            ELSE SqrtSearch(n, lo, mid - 1)

\* f32::sqrt on the integer grid: the floor of the square root.
Sqrt(n) == SqrtSearch(n, 0, Min(n, 46340))

RECURSIVE SumSeq(_)
SumSeq(s) == IF s = <<>> THEN 0 ELSE Head(s) + SumSeq(Tail(s))

RECURSIVE MaxSeq(_)
MaxSeq(s) == IF Len(s) = 1 THEN s[1] ELSE Max(s[1], MaxSeq(Tail(s)))

RECURSIVE MinSeq(_)
MinSeq(s) == IF Len(s) = 1 THEN s[1] ELSE Min(s[1], MinSeq(Tail(s)))

RECURSIVE Flatten(_)
Flatten(ss) == IF ss = <<>> THEN <<>> ELSE Head(ss) \o Flatten(Tail(ss))

-----------------------------------------------------------------------------
(* f32, as far as the cooling schedule needs it: positive normal values.   *)

TwoTo12 == Pow2(12)
TwoTo22 == Pow2(22)
TwoTo23 == Pow2(23)
TwoTo24 == Pow2(24)

\* a * b in f32: the 48-bit product of the mantissas, rounded to 24 bits,
\* ties to even.
F32Mul(a, b) ==
    LET ah == a.m \div TwoTo12
        al == a.m % TwoTo12
        bh == b.m \div TwoTo12
        bl == b.m % TwoTo12
        mid == ah * bl + al * bh
        lo_full == (mid % TwoTo12) * TwoTo12 + al * bl
        hi == ah * bh + (mid \div TwoTo12) + (lo_full \div TwoTo24)
        lo == lo_full % TwoTo24
        wide == hi >= TwoTo23
        q == IF wide THEN hi ELSE 2 * hi + (lo \div TwoTo23)
        rem == IF wide THEN lo ELSE lo % TwoTo23
        half == IF wide THEN TwoTo23 ELSE TwoTo22
        up == IF rem > half \/ (rem = half /\ q % 2 = 1) THEN 1 ELSE 0
        m == q + up
        e == a.e + b.e + (IF wide THEN 24 ELSE 23)
    IN IF m = TwoTo24 THEN [m |-> TwoTo23, e |-> e + 1] ELSE [m |-> m, e |-> e]

\* a > b in f32.
F32Greater(a, b) == a.e > b.e \/ (a.e = b.e /\ a.m > b.m)

\* The three constants of the schedule, as f32: 1000.0 = 16384000 * 2^-14,
\* 0.99 = 16609444 * 2^-24 (the nearest f32), 0.0001 = 13743895 * 2^-37.
\* Two other schedules: a rate of 0.9 and a cutoff of 1.0.
RATE_FAST == [m |-> 15099494, e |-> -24]

CUTOFF_HIGH == [m |-> 8388608, e |-> -23]

INITIAL_TEMPERATURE == [m |-> 16384000, e |-> -14]

COOLING_RATE == [m |-> 16609444, e |-> -24]

CUTOFF == [m |-> 13743895, e |-> -37]

\* The last sweep of a run and the temperature at its head: the f32 the
\* schedule holds after LAST_SWEEP coolings (CoolingSpec reaches both, see
\* FinalSweepReached).
LAST_SWEEP == 1604 - 1

LAST_TEMPERATURE == [m |-> 13846286, e |-> -37]

-----------------------------------------------------------------------------
(* Colors: a triple <<r, g, b>> of channels in thousandths.                *)

\* 1.0, the upper limit random_nearby_color clamps to.
ONE == 1000

\* const WIGGLE: f32 = 0.05
WIGGLE == 50

\* The perturbation without its clamp.
ClampNone(x, lo, hi) == x

\* f32::clamp(x, lo, hi)
Clamp(x, lo, hi) == IF x < lo THEN lo ELSE IF x > hi THEN hi ELSE x

\* The perturbation written to the drawn channel and to the next one.
NearbyTwoChannels(c, channel, offset) ==
    [k \in 1..3 |-> IF k = channel + 1 \/ k = ((channel + 1) % 3) + 1
                    THEN Clamp(c[k] + offset, 0, ONE) ELSE c[k]]

\* The perturbation with the offset added twice.
NearbyDoubleOffset(c, channel, offset) ==
    [c EXCEPT ![channel + 1] = Clamp(c[channel + 1] + 2 * offset, 0, ONE)]

\* random_nearby_color(c, rng): channel is rng.gen_range(0..3) and offset is
\* rng.gen_range(-WIGGLE..=WIGGLE), the two draws the function makes.
random_nearby_color(c, channel, offset) ==
    LET old_val == c[channel + 1]
        new_val == Clamp(old_val + offset, 0, ONE)
    IN [c EXCEPT ![channel + 1] = new_val]

\* The channels rng.gen_range(0..3) can return.
Channels == 0..2

\* The offsets the model draws from -WIGGLE..=WIGGLE: both ends and the middle.
Offsets == {-WIGGLE, 0, WIGGLE}

\* distance(c1, c2): the program asks the palette crate for the CIEDE2000
\* difference of the two colors in Lch.  The model keeps what the cost model
\* uses of it (symmetric, 0 for equal colors, 100.0 between black and white)
\* and computes the mean absolute channel difference, in hundredths.
distance(c1, c2) ==
    ((Abs(c1[1] - c2[1]) + Abs(c1[2] - c2[2]) + Abs(c1[3] - c2[3])) * 10) \div 3

\* The sRGB transfer function at 0.00, 0.05, ... 1.00 (LinearRgb::from_encoding),
\* in thousandths; between two entries the model interpolates linearly.
SrgbKnots == <<0, 4, 10, 20, 33, 51, 73, 100, 133, 171, 214, 263, 319, 380, 448,
               523, 604, 692, 787, 890, 1000>>

\* LinearRgb::from_encoding on one channel in 0..ONE.
into_linear(s) ==
    LET k == Min(s \div WIGGLE, 19)
        lo == SrgbKnots[k + 1]
        hi == SrgbKnots[k + 2]
    IN lo + ((s - k * WIGGLE) * (hi - lo)) \div WIGGLE

RECURSIVE KnotBelow(_, _, _)
\* The last k in lo..hi whose entry SrgbKnots[k + 1] is at most l
\* (SrgbKnots[lo + 1] <= l is given).
KnotBelow(l, lo, hi) ==
    IF lo >= hi THEN lo
    ELSE IF SrgbKnots[(lo + hi + 1) \div 2 + 1] <= l
         THEN KnotBelow(l, (lo + hi + 1) \div 2, hi)
         ELSE KnotBelow(l, lo, (lo + hi + 1) \div 2 - 1)

from_linear_between(l, k) ==
    k * WIGGLE + ((l - SrgbKnots[k + 1]) * WIGGLE) \div (SrgbKnots[k + 2] - SrgbKnots[k + 1])

\* Color::from_encoding on one linear channel, which may lie outside 0..ONE.
from_linear(l) ==
    IF l <= 0 THEN (l * 1292) \div 100
    ELSE from_linear_between(l, KnotBelow(l, 0, 19))

Visions == {"Default", "Protanopia", "Protonomaly", "Deuteranopia", "Deuteranomaly",
            "Tritanopia", "Tritanomaly", "Achromatopsia", "Achromatomaly"}

\* brettel_params(v): the two matrices and the normal, in hundred-thousandths.
brettel_params(v) ==
    CASE v \in {"Protanopia", "Protonomaly"} ->
           [rgb_cvd_from_rgb_1 |-> <<14510, 120165, -34675, 10447, 85316, 4237,
                                     429, -603, 100174>>,
            rgb_cvd_from_rgb_2 |-> <<14115, 116782, -30897, 10495, 85730, 3776,
                                     431, -586, 100155>>,
            separation_plane_normal |-> <<48, 416, -464>>]
      [] v \in {"Deuteranopia", "Deuteranomaly"} ->
           [rgb_cvd_from_rgb_1 |-> <<36198, 86755, -22953, 26099, 64512, 9389,
                                     -1975, 2686, 99289>>,
            rgb_cvd_from_rgb_2 |-> <<37009, 88540, -25549, 25767, 63782, 10451,
                                     -1950, 2741, 99209>>,
            separation_plane_normal |-> <<-293, -645, 938>>]
      [] v \in {"Tritanopia", "Tritanomaly"} ->
           [rgb_cvd_from_rgb_1 |-> <<101354, 14268, -15622, -1181, 87561, 13619,
                                     7707, 81208, 11085>>,
            rgb_cvd_from_rgb_2 |-> <<93337, 19999, -13336, 5809, 82565, 11626,
                                     -37923, 113825, 24098>>,
            separation_plane_normal |-> <<3960, -2831, -1129>>]

\* brettel, lines 335-342: the matrix on the side of the separation plane
\* the linear color lies on.
brettel_matrix(rgb, params) ==
    IF rgb[1] * params.separation_plane_normal[1]
         + rgb[2] * params.separation_plane_normal[2]
         + rgb[3] * params.separation_plane_normal[3] >= 0
    THEN params.rgb_cvd_from_rgb_1
    ELSE params.rgb_cvd_from_rgb_2

\* brettel, lines 345-351: the full dichromat projection.
brettel_project(mat, rgb) ==
    << (mat[1] * rgb[1] + mat[2] * rgb[2] + mat[3] * rgb[3]) \div 100000,
       (mat[4] * rgb[1] + mat[5] * rgb[2] + mat[6] * rgb[3]) \div 100000,
       (mat[7] * rgb[1] + mat[8] * rgb[2] + mat[9] * rgb[3]) \div 100000 >>

\* brettel, lines 356-361: the severity (in tenths) as a linear interpolation,
\* then back to sRGB.
brettel_blend(rgb_cvd, rgb, severity) ==
    << from_linear((rgb_cvd[1] * severity + rgb[1] * (10 - severity)) \div 10),
       from_linear((rgb_cvd[2] * severity + rgb[2] * (10 - severity)) \div 10),
       from_linear((rgb_cvd[3] * severity + rgb[3] * (10 - severity)) \div 10) >>

\* brettel, from the linear color on.
brettel_linear(rgb, params, severity) ==
    brettel_blend(brettel_project(brettel_matrix(rgb, params), rgb), rgb, severity)

\* brettel(c_srgb, v, severity)
brettel(c_srgb, v, severity) ==
    brettel_linear(<<into_linear(c_srgb[1]), into_linear(c_srgb[2]), into_linear(c_srgb[3])>>,
                   brettel_params(v), severity)

\* monochrome_with_severity(c, severity): z is rounded to 0.0 or 1.0.
monochrome_with_severity(c, severity) ==
    LET z == IF 299 * c[1] + 587 * c[2] + 114 * c[3] >= 500 * ONE THEN ONE ELSE 0
    IN << (z * severity + (10 - severity) * c[1]) \div 10,
          (z * severity + (10 - severity) * c[2]) \div 10,
          (z * severity + (10 - severity) * c[3]) \div 10 >>

brettel_function(c, v) ==
    CASE v = "Default" -> c
      [] v = "Achromatomaly" -> monochrome_with_severity(c, 6)
      [] v = "Achromatopsia" -> monochrome_with_severity(c, 10)
      [] v \in {"Protanopia", "Deuteranopia", "Tritanopia"} -> brettel(c, v, 10)
      [] v \in {"Protonomaly", "Deuteranomaly", "Tritanomaly"} -> brettel(c, v, 6)

-----------------------------------------------------------------------------
(* Cost primitives.                                                        *)

\* 100.0 in hundredths, the largest value of a Cost.
COST_MAX == 10000

\* A failed assertion, expect or unwrap: the call panics and returns nothing.
Panicked == [ok |-> FALSE, value |-> 0]

Returned(v) == [ok |-> TRUE, value |-> v]

\* new without its second assertion.
NewNoUpperLimit(value) ==
    IF ~(value >= 0) THEN Panicked
    ELSE Returned(value)

\* Cost::new / ScaledCost::new: both assertions, then the value is stored.
ScaledCostNew(value) ==
    IF ~(value >= 0) THEN Panicked
    ELSE IF ~(value <= COST_MAX) THEN Panicked
    ELSE Returned(value)

\* ScaledCost::value
ScaledCostValue(cost) == cost.value

\* 1.0 as a contrast ratio: ratios are in hundredths.
RATIO_ONE == 100

\* The largest contrast ratio of two sRGB colors, 21.0.
RATIO_MAX == 2100

\* The upper limit that contrast_cost of main.rs asserts, 8.0.
CONTRAST_MAX == 800

ContrastNeeds == {"Background", "Text"}

\* minimum_ratio without a floor: 1.0 for every need.
MinimumRatioOne(need) == RATIO_ONE

\* ContrastNeed::minimum_ratio
minimum_ratio(need) == IF need = "Background" THEN 300 ELSE 450

\* exp(-n) in units of 1e-9, rounded to nearest, for n = 0..21; it rounds to
\* 0 for every larger n.
ExpNegKnots ==
    <<1000000000, 367879441, 135335283, 49787068, 18315639, 6737947, 2478752,
      911882, 335463, 123410, 45400, 16702, 6144, 2260, 832, 306, 113, 41, 15,
      6, 2, 1>>

\* exp(-x) for an argument x >= 0 in hundredths; the arguments that occur
\* are whole numbers (ratios are drawn in quarters and multiplied by 4.).
ExpNeg(x) ==
    IF x \div 100 + 1 <= Len(ExpNegKnots) THEN ExpNegKnots[x \div 100 + 1] ELSE 0

\* 100. / (1. + x.exp()) in hundredths, for x >= 0 in hundredths, computed as
\* 100. * exp(-x) / (exp(-x) + 1.) to stay within the integers.
Sigmoid(x) == ExpNeg(x) \div ((1000000000 + ExpNeg(x)) \div COST_MAX)

\* ContrastRatio::cost of color.rs, for the fields value and need of self;
\* the argument of exp is 4. * (self.value() - ratio), and ratio is
\* self.value().
ContrastRatioCost(value, need) ==
    LET ratio == value
    IN IF ~(RATIO_ONE <= ratio /\ ratio <= RATIO_MAX) THEN Panicked
       ELSE IF ratio < minimum_ratio(need) THEN ScaledCostNew(COST_MAX)
       ELSE ScaledCostNew(Sigmoid(4 * (value - ratio)))

\* contrast_cost of main.rs: the closure cost applied to 3. or 4.5.
contrast_cost(contrast, need) ==
    IF ~(RATIO_ONE <= contrast /\ contrast <= CONTRAST_MAX) THEN Panicked
    ELSE LET min_ratio == IF need = "Background" THEN 300 ELSE 450
         IN IF contrast < min_ratio THEN Returned(COST_MAX)
            ELSE Returned(Sigmoid(4 * (contrast - min_ratio)))

\* let mut closest = 1e10: larger than every distance.
CLOSEST_INIT == 1000000000

NoColor == <<-1, -1, -1>>

RECURSIVE ClosestScanLast(_, _, _, _)
\* The loop with d <= closest: a later candidate at the same distance wins.
ClosestScanLast(c, cs, closest, out) ==
    IF cs = <<>> THEN out
    ELSE LET d == distance(c, Head(cs))
         IN IF d <= closest THEN ClosestScanLast(c, Tail(cs), d, Returned(Head(cs)))
            ELSE ClosestScanLast(c, Tail(cs), closest, out)

RECURSIVE ClosestScan(_, _, _, _)
\* The loop of get_closest_color over the rest of cs; out is Some(color) as
\* Returned(color) and None as Panicked.
ClosestScan(c, cs, closest, out) ==
    IF cs = <<>> THEN out
    ELSE LET d == distance(c, Head(cs))
         IN IF d < closest THEN ClosestScan(c, Tail(cs), d, Returned(Head(cs)))
            ELSE ClosestScan(c, Tail(cs), closest, out)

\* get_closest_color(c, cs): asserts cs is not empty; out.unwrap() panics on None.
get_closest_color(c, cs) ==
    IF ~(Len(cs) > 0) THEN [ok |-> FALSE, value |-> NoColor]
    ELSE ClosestScan(c, cs, CLOSEST_INIT, [ok |-> FALSE, value |-> NoColor])

\* root_mean_square_distance(x, s), for a non-empty s (an empty s gives
\* 0.0 / 0.0, a NaN, which the callers hand to Cost::new: see distance_cost).
root_mean_square_distance(x, s) ==
    Sqrt(SumSeq([k \in 1..Len(s) |-> (x - s[k]) * (x - s[k])]) \div Len(s))

\* root_mean_square(s), for a non-empty s.
root_mean_square(s) ==
    Sqrt(SumSeq([k \in 1..Len(s) |-> s[k] * s[k]]) \div Len(s))

\* bg_to_fg_distances(bg_colors, fg_colors, out): what out holds afterwards.
bg_to_fg_distances(bgs, fgs) ==
    Flatten([a \in 1..Len(bgs) |-> [b \in 1..Len(fgs) |-> distance(bgs[a], fgs[b])]])

\* fg_mutual_distances(fg_colors, out): what out holds afterwards.
fg_mutual_distances(fgs) ==
    Flatten([a \in 1..Len(fgs) |->
                [b \in 1..(Len(fgs) - a) |-> distance(fgs[a], fgs[a + b])]])

\* max_minus_min(s): expects a non-empty slice.
max_minus_min(s) == IF Len(s) = 0 THEN Panicked ELSE Returned(MaxSeq(s) - MinSeq(s))

\* The relative luminance of a color, in thousandths.
luminance(c) ==
    (2126 * into_linear(c[1]) + 7152 * into_linear(c[2]) + 722 * into_linear(c[3]))
        \div 10000

\* c1.get_contrast_ratio(&c2): the lighter luminance plus 0.05 over the
\* darker one plus 0.05, in hundredths.
get_contrast_ratio(c1, c2) ==
    IF luminance(c1) > luminance(c2)
    THEN ((luminance(c1) + 50) * 100) \div (luminance(c2) + 50)
    ELSE ((luminance(c2) + 50) * 100) \div (luminance(c1) + 50)

\* ContrastRatio::new(value, need): a value below 1.0 is inverted.
ContrastRatioNew(value, need) ==
    IF value < RATIO_ONE THEN [value |-> (RATIO_ONE * RATIO_ONE) \div value, need |-> need]
    ELSE [value |-> value, need |-> need]

\* The vector pairs of BackgroundColors::contrast_cost, by slot name.
contrast_pairs ==
    <<<<"main", "range_selection">>,
      <<"main", "line_selection">>,
      <<"main", "git_added">>,
      <<"main", "git_line_selection">>,
      <<"main", "git_deleted">>,
      <<"range_selection", "line_selection">>,
      <<"range_selection", "git_added">>,
      <<"range_selection", "git_line_selection">>,
      <<"range_selection", "git_deleted">>,
      <<"git_added", "git_line_selection">>,
      <<"git_added", "git_deleted">>,
      <<"git_line_selection", "git_deleted">>>>

\* The loop of BackgroundColors::contrast_cost: the cost of one pair, with
\* need Background.
pair_contrast_cost(bg, pair) ==
    ContrastRatioCost(
        ContrastRatioNew(get_contrast_ratio(bg[pair[1]], bg[pair[2]]), "Background").value,
        "Background")

\* BackgroundColors::contrast_cost(&self)
BackgroundColorsContrastCost(bg) ==
    IF \E k \in 1..Len(contrast_pairs) : ~pair_contrast_cost(bg, contrast_pairs[k]).ok
    THEN Panicked
    ELSE ScaledCostNew(root_mean_square(
             [k \in 1..Len(contrast_pairs) |->
                 pair_contrast_cost(bg, contrast_pairs[k]).value]))

-----------------------------------------------------------------------------
(* The palette (struct State) and its cost model.                          *)

\* BackgroundColors::COUNT and MODIFIABLE_COUNT
COUNT == 2

MODIFIABLE_COUNT == 1

\* BackgroundColors::into_array
into_array(bg) == <<bg.main, bg.line_selection>>

\* BackgroundColors::updateable_array
updateable_array(bg) == <<bg.line_selection>>

\* update that writes the main background as well.
UpdateMainToo(bg, new) == [bg EXCEPT !.line_selection = new[1], !.main = new[1]]

\* BackgroundColors::update
update(bg, new) == [bg EXCEPT !.line_selection = new[1]]

\* The weights of TotalCost::total and of State, in hundredths.
DISTANCE_WEIGHT == 100
RANGE_WEIGHT == 50
TARGET_WEIGHT == 100
PROTANOPIA_WEIGHT == 33
DEUTERANOPIA_WEIGHT == 33
TRITANOPIA_WEIGHT == 33
DISTANCE_BG_WEIGHT == 20
DISTANCE_FG_WEIGHT == 100 - DISTANCE_BG_WEIGHT
TARGET_BG_WEIGHT == 10
TARGET_FG_WEIGHT == 100 - TARGET_BG_WEIGHT

\* TotalCost::total, in ten-thousandths.
Total(c) ==
    DISTANCE_WEIGHT * c.distance_cost
      + RANGE_WEIGHT * c.range_cost
      + TARGET_WEIGHT * c.target_cost
      + PROTANOPIA_WEIGHT * c.protanopia_cost
      + DEUTERANOPIA_WEIGHT * c.deuteranopia_cost
      + TRITANOPIA_WEIGHT * c.tritanopia_cost

\* ScratchBuffers::default()
EmptyBufs ==
    [bg_to_fg |-> <<>>, fg_to_fg |-> <<>>, bg_colors |-> <<>>, fg_colors |-> <<>>,
     target_fg_deltas |-> <<>>, target_bg_deltas |-> <<>>]

\* distance_cost, line 571: the weighted score, through Cost::new.  An empty
\* distance list makes its score 0.0 / 0.0, a NaN, which fails Cost::new's
\* first assertion.
distance_score(fg_to_fg, bg_to_fg) ==
    IF Len(fg_to_fg) = 0 \/ Len(bg_to_fg) = 0 THEN Panicked
    ELSE ScaledCostNew((root_mean_square_distance(COST_MAX, bg_to_fg) * DISTANCE_BG_WEIGHT
                          + root_mean_square_distance(COST_MAX, fg_to_fg)
                              * DISTANCE_FG_WEIGHT) \div 100)

\* distance_cost, lines 567-571, once the two distance lists are computed.
distance_cost_scored(b, fg_to_fg, bg_to_fg) ==
    [cost |-> distance_score(fg_to_fg, bg_to_fg),
     bufs |-> [b EXCEPT !.fg_to_fg = fg_to_fg, !.bg_to_fg = bg_to_fg]]

\* distance_cost, lines 565-566, once bufs.bg_colors and bufs.fg_colors are filled.
distance_cost_filled(b) ==
    distance_cost_scored(b, fg_mutual_distances(b.fg_colors),
                         bg_to_fg_distances(b.bg_colors, b.fg_colors))

RECURSIVE seen_by(_, _)
\* distance_cost, lines 553-564: clear the buffer and push brettel_function
\* of every color, in order.
seen_by(colors, v) ==
    IF colors = <<>> THEN <<>>
    ELSE <<brettel_function(Head(colors), v)>> \o seen_by(Tail(colors), v)

\* State::distance_cost(&self, bufs, v): the Cost it returns and the buffers
\* as it leaves them.
distance_cost(st, b, v) ==
    distance_cost_filled(
        [b EXCEPT
           !.bg_colors = seen_by(into_array(st.bg_colors), v),
           !.fg_colors = seen_by(st.fg_colors, v)])

\* target_cost, lines 576-579 and 583-586: for each color the distance to its
\* closest target; get_closest_color panics on an empty target list.
target_deltas(colors, targets) ==
    IF Len(targets) = 0 /\ Len(colors) > 0 THEN Panicked
    ELSE Returned([k \in 1..Len(colors) |->
                      distance(colors[k], get_closest_color(colors[k], targets).value)])

\* target_cost, lines 580-591, once both delta lists are filled; the
\* root_mean_square of an empty list is a NaN.
target_score(fg, bg) ==
    IF ~fg.ok \/ ~bg.ok THEN Panicked
    ELSE IF Len(fg.value) = 0 \/ Len(bg.value) = 0 THEN Panicked
    ELSE ScaledCostNew((root_mean_square(bg.value) * TARGET_BG_WEIGHT
                          + root_mean_square(fg.value) * TARGET_FG_WEIGHT) \div 100)

target_cost_filled(fg, bg, b) ==
    [cost |-> target_score(fg, bg),
     bufs |-> [b EXCEPT !.target_fg_deltas = IF fg.ok THEN fg.value ELSE <<>>,
                        !.target_bg_deltas = IF bg.ok THEN bg.value ELSE <<>>]]

\* State::target_cost(&self, bufs)
target_cost(st, b) ==
    target_cost_filled(target_deltas(st.fg_colors, st.target_fg_colors),
                       target_deltas(st.bg_color_array, st.target_bg_colors), b)

\* total_cost, lines 597-605: the TotalCost literal, from the six values.
total_cost_of(d, range, t, p, de, tr) ==
    [ok |-> d.cost.ok /\ range.ok /\ t.cost.ok /\ p.cost.ok /\ de.cost.ok /\ tr.cost.ok,
     cost |-> [distance_cost |-> d.cost.value,
               range_cost |-> range.value,
               target_cost |-> t.cost.value,
               protanopia_cost |-> p.cost.value,
               deuteranopia_cost |-> de.cost.value,
               tritanopia_cost |-> tr.cost.value],
     bufs |-> tr.bufs]

\* total_cost, lines 603-604.
total_cost_from_protanopia(st, d, range, t, p) ==
    total_cost_of(d, range, t, p,
                  distance_cost(st, p.bufs, "Deuteranopia"),
                  distance_cost(st, distance_cost(st, p.bufs, "Deuteranopia").bufs,
                                "Tritanopia"))

\* total_cost with range_cost read from what the Protanopia step left in
\* bufs.fg_to_fg.
RangeFromProtanopia(st, d, t, p) ==
    total_cost_from_protanopia(st, d, max_minus_min(p.bufs.fg_to_fg), t, p)

\* total_cost with the range_cost field evaluated after protanopia_cost.
RangeAfterProtanopia(st, d) ==
    RangeFromProtanopia(st, d, target_cost(st, d.bufs),
                        distance_cost(st, target_cost(st, d.bufs).bufs, "Protanopia"))

\* total_cost, lines 600-602: range_cost reads bufs.fg_to_fg as the first
\* distance_cost left it, then the target cost and the protanopia cost.
total_cost_from_distance(st, d) ==
    total_cost_from_protanopia(st, d, max_minus_min(d.bufs.fg_to_fg),
                               target_cost(st, d.bufs),
                               distance_cost(st, target_cost(st, d.bufs).bufs, "Protanopia"))

\* State::total_cost(&self, bufs): the fields are evaluated in the order written.
total_cost(st, b) == total_cost_from_distance(st, distance_cost(st, b, "Default"))

\* State::new that fills the flat array and the background targets from the
\* main background, which is not modifiable.
StateNewFromMain(bgs, targets) ==
    [bg_colors |-> bgs,
     bg_color_array |-> <<bgs.main>>,
     fg_colors |-> targets,
     target_bg_colors |-> <<bgs.main>>,
     target_fg_colors |-> targets]

\* State::new(bg_colors, target_fg_colors)
StateNew(bgs, targets) ==
    [bg_colors |-> bgs,
     bg_color_array |-> updateable_array(bgs),
     fg_colors |-> targets,
     target_bg_colors |-> updateable_array(bgs),
     target_fg_colors |-> targets]

\* self, as optimize reads and clones it.
Self ==
    [bg_colors |-> bg_colors,
     bg_color_array |-> bg_color_array,
     fg_colors |-> fg_colors,
     target_bg_colors |-> target_bg_colors,
     target_fg_colors |-> target_fg_colors]

\* The index space of a sweep: 0..fg_colors.len() + MODIFIABLE_COUNT.
SlotCount == Len(fg_colors) + MODIFIABLE_COUNT

-----------------------------------------------------------------------------
(* The inputs of a run: what main hands to State::new, and the RNG.        *)

\* light_mode_bg_colors() and dark_mode_bg_colors(), each channel rounded to
\* a multiple of WIGGLE.
LightBackgrounds ==
    [main |-> <<1000, 1000, 1000>>, line_selection |-> <<900, 900, 950>>,
     range_selection |-> <<1000, 850, 750>>, git_deleted |-> <<1000, 950, 950>>,
     git_line_selection |-> <<900, 900, 950>>, git_added |-> <<950, 1000, 950>>]

DarkBackgrounds ==
    [main |-> <<100, 150, 200>>, line_selection |-> <<200, 250, 300>>,
     range_selection |-> <<550, 400, 300>>, git_deleted |-> <<250, 100, 100>>,
     git_line_selection |-> <<100, 100, 100>>, git_added |-> <<150, 250, 200>>]

InitBackgrounds == {LightBackgrounds, DarkBackgrounds}

\* Brand colors ("medium": orange, pacific blue, red violet, pomegranate,
\* electric violet, blurple, mountain meadow), rounded the same way.
BrandColors ==
    <<<<1000, 750, 300>>, <<0, 650, 800>>, <<750, 100, 500>>, <<950, 200, 150>>,
      <<500, 50, 850>>, <<300, 200, 900>>, <<100, 650, 300>>>>

\* The foreground lists a palette is constructed with: the first n brand colors.
InitForegrounds == {SubSeq(BrandColors, 1, n) : n \in 2..Min(MaxFg, Len(BrandColors))}

\* The values the model draws from rng.gen_range(0. ..=1.), in quarters:
\* 0.0, 0.5 and 1.0 (the range is inclusive).
Draws == {0, 2, 4}

\* -ln(draw) in thousandths, for a draw in quarters; for 0.0 the largest x
\* with exp(-x) > 0 in f32, for 1.0 zero.
NegLn(draw) ==
    CASE draw = 0 -> 103972
      [] draw = 1 -> 1386
      [] draw = 2 -> 693
      [] draw = 3 -> 288
      [] draw = 4 -> 0

\* delta / temperature in thousandths, rounded down, for delta >= 0 in
\* ten-thousandths and a temperature below 1024; the temperature's mantissa
\* is cut to 10 bits, and a quotient too large for NegLn to matter is
\* reported as the largest one that still fits.
DeltaOverTemperature(delta, t) ==
    LET m10 == t.m \div Pow2(14)
        j == -(t.e + 14)
    IN IF delta >= Pow2(30 - j) /\ delta > 0 THEN Pow2(30) \div (10 * m10)
       ELSE (delta * Pow2(j)) \div (10 * m10)

\* The acceptance with the sign of delta lost: exp(delta / temperature).
AcceptSignLost(draw, delta, t) ==
    delta > 0 \/ DeltaOverTemperature(-delta, t) < NegLn(draw)

\* accept = rng.gen_range(0. ..=1.) < (-delta / temperature).exp(), decided
\* without computing exp: for delta < 0 the probability exceeds 1.0, and for
\* delta >= 0 draw < exp(-x) is x < -ln(draw).
Accept(draw, delta, t) ==
    delta < 0 \/ DeltaOverTemperature(delta, t) < NegLn(draw)

-----------------------------------------------------------------------------
(* State::optimize, one action per stretch of its body.                    *)

\* color_slot that addresses the foreground colors only, wrapping around.
ColorSlotForegroundOnly(idx) == fg_colors[(idx % Len(fg_colors)) + 1]

\* State::color_slot(i), read.
color_slot(idx) ==
    IF idx < Len(fg_colors) THEN fg_colors[idx + 1]
    ELSE bg_color_array[idx - Len(fg_colors) + 1]

\* fg_colors and bg_color_array after *self.color_slot(idx) = c.
SlotsWith(idx, c) ==
    IF idx < Len(fg_colors)
    THEN [fg |-> [fg_colors EXCEPT ![idx + 1] = c], arr |-> bg_color_array]
    ELSE [fg |-> fg_colors,
          arr |-> [bg_color_array EXCEPT ![idx - Len(fg_colors) + 1] = c]]

\* A rollback that writes nothing back.
ResetNothing(idx, c) == [fg |-> fg_colors, arr |-> bg_color_array]

\* Line 665: *self.color_slot(i) = old_color, the rollback of a rejected step.
Reset(idx, c) == SlotsWith(idx, c)

\* sync_bg_slot returning early for every index.
SyncNever(bg, arr, nfg, idx) == bg

\* State::sync_bg_slot(i): bg_colors afterwards, given the flat array.
sync_bg_slot(bg, arr, nfg, idx) ==
    IF idx < nfg THEN bg
    ELSE LET k == idx - nfg
             a == [updateable_array(bg) EXCEPT ![k + 1] = arr[k + 1]]
         IN update(bg, a)

ZeroCost ==
    [distance_cost |-> 0, range_cost |-> 0, target_cost |-> 0,
     protanopia_cost |-> 0, deuteranopia_cost |-> 0, tritanopia_cost |-> 0]

NoStep ==
    [valid |-> FALSE, index |-> 0, accept |-> FALSE, delta |-> 0, draw |-> 0,
     draws |-> 0]

NoReport(st) ==
    [emitted |-> FALSE, start_cost |-> ZeroCost, final_cost |-> ZeroCost,
     start_state |-> st, final_state |-> st, n_iterations |-> 0]

\* No call of a cost primitive or of random_nearby_color is being examined.
NoCall == [fn |-> "none"]

\* main: State::new(bg_colors, brand_colors), then optimize is entered.
InitRun ==
    \E bgs \in InitBackgrounds, targets \in InitForegrounds :
        LET st == StateNew(bgs, targets)
        IN /\ bg_colors = st.bg_colors
           /\ bg_color_array = st.bg_color_array
           /\ fg_colors = st.fg_colors
           /\ target_bg_colors = st.target_bg_colors
           /\ target_fg_colors = st.target_fg_colors
           /\ bufs = EmptyBufs
           /\ start_cost = ZeroCost
           /\ start_state = st
           /\ old_cost = ZeroCost
           /\ new_cost = ZeroCost
           /\ old_color = <<0, 0, 0>>
           /\ temperature = INITIAL_TEMPERATURE
           /\ n_iterations = 0
           /\ i = 0
           /\ pc = "start"
           /\ report = NoReport(st)
           /\ pre = [state |-> st, old_cost |-> ZeroCost, channel |-> 0, offset |-> 0,
                     temperature |-> INITIAL_TEMPERATURE]
           /\ last = NoStep
           /\ input = NoCall
           /\ output = NoCall

\* Lines 637-645: the initial evaluation and the locals.
Start ==
    /\ pc = "start"
    /\ LET r == total_cost(Self, EmptyBufs)
       IN /\ bufs' = r.bufs
          /\ start_cost' = r.cost
          /\ old_cost' = r.cost
          /\ pc' = IF r.ok THEN "loop" ELSE "panicked"
    /\ start_state' = Self
    /\ temperature' = INITIAL_TEMPERATURE
    /\ n_iterations' = 0
    /\ UNCHANGED <<stateVars, new_cost, old_color, i, report, pre, last, input, output>>

\* Line 647: while temperature > CUTOFF, and the for loop is entered at 0.
LoopTest ==
    /\ pc = "loop"
    /\ IF F32Greater(temperature, CUTOFF)
       THEN pc' = "perturb" /\ i' = 0
       ELSE pc' = "report" /\ i' = i
    /\ UNCHANGED <<stateVars, bufs, start_cost, start_state, old_cost, new_cost,
                   old_color, temperature, n_iterations, report, pre, last,
                   input, output>>

\* Lines 649-655: the slot is read, perturbed and synced.
Perturb(channel, offset) ==
    /\ pc = "perturb"
    /\ LET old == color_slot(i)
           w == SlotsWith(i, random_nearby_color(old, channel, offset))
       IN /\ old_color' = old
          /\ fg_colors' = w.fg
          /\ bg_color_array' = w.arr
          /\ bg_colors' = sync_bg_slot(bg_colors, w.arr, Len(fg_colors), i)
    /\ pre' = [state |-> Self, old_cost |-> old_cost, channel |-> channel,
               offset |-> offset, temperature |-> temperature]
    /\ last' = [NoStep EXCEPT !.draws = 2]
    /\ pc' = "eval"
    /\ UNCHANGED <<target_bg_colors, target_fg_colors, bufs, start_cost, start_state,
                   old_cost, new_cost, temperature, n_iterations, i, report,
                   input, output>>

\* Line 657: the whole palette is scored again.
Evaluate ==
    /\ pc = "eval"
    /\ LET r == total_cost(Self, bufs)
       IN /\ new_cost' = r.cost
          /\ bufs' = r.bufs
          /\ pc' = IF r.ok THEN "decide" ELSE "panicked"
    /\ UNCHANGED <<stateVars, start_cost, start_state, old_cost, old_color,
                   temperature, n_iterations, i, report, pre, last, input, output>>

\* The decision with the cooling inside the for body: the sweep is counted
\* and the temperature multiplied after every index.
DecideCoolingEveryIndex(draw) ==
    /\ pc = "decide"
    /\ LET delta == Total(new_cost) - Total(old_cost)
           accept == Accept(draw, delta, temperature)
           w == Reset(i, old_color)
       IN /\ last' = [valid |-> TRUE, index |-> i, accept |-> accept,
                      delta |-> delta, draw |-> draw, draws |-> last.draws + 1]
          /\ IF accept
             THEN /\ old_cost' = new_cost
                  /\ UNCHANGED <<fg_colors, bg_color_array, bg_colors>>
             ELSE /\ old_cost' = old_cost
                  /\ fg_colors' = w.fg
                  /\ bg_color_array' = w.arr
                  /\ bg_colors' = sync_bg_slot(bg_colors, w.arr, Len(fg_colors), i)
    /\ IF i + 1 < SlotCount
       THEN /\ i' = i + 1
            /\ pc' = "perturb"
       ELSE /\ i' = i
            /\ pc' = "loop"
    /\ n_iterations' = n_iterations + 1
    /\ temperature' = F32Mul(temperature, COOLING_RATE)
    /\ UNCHANGED <<target_bg_colors, target_fg_colors, bufs, start_cost, start_state,
                   new_cost, old_color, report, pre, input, output>>

\* The decision that records new_cost as old_cost whether or not the step
\* is accepted.
DecideRecordingAlways(draw) ==
    /\ pc = "decide"
    /\ LET delta == Total(new_cost) - Total(old_cost)
           accept == Accept(draw, delta, temperature)
           w == Reset(i, old_color)
       IN /\ last' = [valid |-> TRUE, index |-> i, accept |-> accept,
                      delta |-> delta, draw |-> draw, draws |-> last.draws + 1]
          /\ old_cost' = new_cost
          /\ IF accept
             THEN UNCHANGED <<fg_colors, bg_color_array, bg_colors>>
             ELSE /\ fg_colors' = w.fg
                  /\ bg_color_array' = w.arr
                  /\ bg_colors' = sync_bg_slot(bg_colors, w.arr, Len(fg_colors), i)
    /\ IF i + 1 < SlotCount
       THEN /\ i' = i + 1
            /\ pc' = "perturb"
            /\ UNCHANGED <<n_iterations, temperature>>
       ELSE /\ i' = i
            /\ pc' = "loop"
            /\ n_iterations' = n_iterations + 1
            /\ temperature' = F32Mul(temperature, COOLING_RATE)
    /\ UNCHANGED <<target_bg_colors, target_fg_colors, bufs, start_cost, start_state,
                   new_cost, old_color, report, pre, input, output>>

\* The decision that draws from the RNG only for a step that raised the
\* cost, and accepts every other step without a draw.
DecideDrawingWhenUphill(draw) ==
    /\ pc = "decide"
    /\ LET delta == Total(new_cost) - Total(old_cost)
           accept == IF delta > 0 THEN Accept(draw, delta, temperature) ELSE TRUE
           w == Reset(i, old_color)
       IN /\ last' = [valid |-> TRUE, index |-> i, accept |-> accept,
                      delta |-> delta, draw |-> draw,
                      draws |-> IF delta > 0 THEN last.draws + 1 ELSE last.draws]
          /\ IF accept
             THEN /\ old_cost' = new_cost
                  /\ UNCHANGED <<fg_colors, bg_color_array, bg_colors>>
             ELSE /\ old_cost' = old_cost
                  /\ fg_colors' = w.fg
                  /\ bg_color_array' = w.arr
                  /\ bg_colors' = sync_bg_slot(bg_colors, w.arr, Len(fg_colors), i)
    /\ IF i + 1 < SlotCount
       THEN /\ i' = i + 1
            /\ pc' = "perturb"
            /\ UNCHANGED <<n_iterations, temperature>>
       ELSE /\ i' = i
            /\ pc' = "loop"
            /\ n_iterations' = n_iterations + 1
            /\ temperature' = F32Mul(temperature, COOLING_RATE)
    /\ UNCHANGED <<target_bg_colors, target_fg_colors, bufs, start_cost, start_state,
                   new_cost, old_color, report, pre, input, output>>

\* Lines 658-671: the decision, the rollback of a rejected step, and the end
\* of the for body; after the last index the sweep is counted and cooled.
Decide(draw) ==
    /\ pc = "decide"
    /\ LET delta == Total(new_cost) - Total(old_cost)
           accept == Accept(draw, delta, temperature)
           w == Reset(i, old_color)
       IN /\ last' = [valid |-> TRUE, index |-> i, accept |-> accept,
                      delta |-> delta, draw |-> draw, draws |-> last.draws + 1]
          /\ IF accept
             THEN /\ old_cost' = new_cost
                  /\ UNCHANGED <<fg_colors, bg_color_array, bg_colors>>
             ELSE /\ old_cost' = old_cost
                  /\ fg_colors' = w.fg
                  /\ bg_color_array' = w.arr
                  /\ bg_colors' = sync_bg_slot(bg_colors, w.arr, Len(fg_colors), i)
    /\ IF i + 1 < SlotCount
       THEN /\ i' = i + 1
            /\ pc' = "perturb"
            /\ UNCHANGED <<n_iterations, temperature>>
       ELSE /\ i' = i
            /\ pc' = "loop"
            /\ n_iterations' = n_iterations + 1
            /\ temperature' = F32Mul(temperature, COOLING_RATE)
    /\ UNCHANGED <<target_bg_colors, target_fg_colors, bufs, start_cost, start_state,
                   new_cost, old_color, report, pre, input, output>>

\* The Report with start_state taken from self at the end of the run
\* instead of from the clone made at its start.
EmitReportAliased ==
    /\ pc = "report"
    /\ LET r == total_cost(Self, bufs)
       IN /\ bufs' = r.bufs
          /\ report' = [emitted |-> TRUE, start_cost |-> start_cost,
                        final_cost |-> r.cost, start_state |-> Self,
                        final_state |-> Self, n_iterations |-> n_iterations]
          /\ pc' = IF r.ok THEN "done" ELSE "panicked"
    /\ UNCHANGED <<stateVars, start_cost, start_state, old_cost, new_cost, old_color,
                   temperature, n_iterations, i, pre, last, input, output>>

\* Lines 674-684: the Report.
EmitReport ==
    /\ pc = "report"
    /\ LET r == total_cost(Self, bufs)
       IN /\ bufs' = r.bufs
          /\ report' = [emitted |-> TRUE, start_cost |-> start_cost,
                        final_cost |-> r.cost, start_state |-> start_state,
                        final_state |-> Self, n_iterations |-> n_iterations]
          /\ pc' = IF r.ok THEN "done" ELSE "panicked"
    /\ UNCHANGED <<stateVars, start_cost, start_state, old_cost, new_cost, old_color,
                   temperature, n_iterations, i, pre, last, input, output>>

-----------------------------------------------------------------------------
(* Specifications.                                                         *)

\* optimize at the head of its last sweep, in a run whose RNG left every
\* color where it was (offset 0.0 at every step before): the state CoolingSpec
\* reaches there, st being the palette and r its total_cost.  The history
\* variables pre and last start empty.
AtLastSweep(st, r) ==
    /\ bg_colors = st.bg_colors
    /\ bg_color_array = st.bg_color_array
    /\ fg_colors = st.fg_colors
    /\ target_bg_colors = st.target_bg_colors
    /\ target_fg_colors = st.target_fg_colors
    /\ bufs = r.bufs
    /\ start_cost = r.cost
    /\ start_state = st
    /\ old_cost = r.cost
    /\ new_cost = r.cost
    /\ old_color = st.bg_color_array[MODIFIABLE_COUNT]
    /\ temperature = LAST_TEMPERATURE
    /\ n_iterations = LAST_SWEEP
    /\ i = Len(st.fg_colors) + MODIFIABLE_COUNT - 1
    /\ pc = "loop"
    /\ report = NoReport(st)
    /\ pre = [state |-> st, old_cost |-> r.cost, channel |-> 0, offset |-> 0,
              temperature |-> LAST_TEMPERATURE]
    /\ last = NoStep
    /\ input = NoCall
    /\ output = NoCall

LastSweepEntry ==
    \E bgs \in InitBackgrounds, targets \in InitForegrounds :
        AtLastSweep(StateNew(bgs, targets), total_cost(StateNew(bgs, targets), EmptyBufs))

\* The steps the model explores: the first MaxSteps of a run, and the last sweep.
Explored ==
    \/ n_iterations >= LAST_SWEEP
    \/ n_iterations * SlotCount + i < MaxSteps

Init == InitRun \/ LastSweepEntry

Next ==
    \/ Start
    \/ LoopTest
    \/ \E channel \in Channels, offset \in Offsets : Explored /\ Perturb(channel, offset)
    \/ Evaluate
    \/ \E draw \in Draws : Decide(draw)
    \/ EmitReport

Spec == Init /\ [][Next]_vars

\* A whole run, from the first sweep to the Report, under the RNG streams
\* whose offsets are all 0.0; the acceptance draws are free.
CoolingNext ==
    \/ Start
    \/ LoopTest
    \/ Perturb(0, 0)
    \/ Evaluate
    \/ \E draw \in Draws : Decide(draw)
    \/ EmitReport

\* The palettes of those runs: the light backgrounds with the shortest
\* foreground list and the dark ones with the longest.
CoolingInit ==
    /\ InitRun
    /\ Len(fg_colors) = IF bg_colors = LightBackgrounds THEN 2 ELSE MaxFg

\* optimize is one synchronous call: it keeps running until it returns.
CoolingSpec == CoolingInit /\ [][CoolingNext]_vars /\ WF_vars(CoolingNext)

-----------------------------------------------------------------------------
(* Weights::initialize (cost.rs), with weights in thousandths.             *)

\* The ends of 0.99..=1.01.
UNIT_LOW == 990

UNIT_HIGH == 1010

\* (0.99..=1.01).contains(&x)
InUnit(x) == UNIT_LOW <= x /\ x <= UNIT_HIGH

\* The derived weights of initialize, none of its assertions.
DeriveOnly(w) ==
    [ok |-> TRUE,
     value |-> [w EXCEPT
                  !.distance_fg_fg_weight =
                      1000 - (w.distance_bg_bg_weight + w.distance_bg_fg_weight),
                  !.target_fg_weight = 1000 - w.target_bg_weight,
                  !.contrast_bg_fg_weight = 1000 - w.contrast_bg_bg_weight]]

\* Weights::initialize(self): each group is asserted, then its derived weight
\* is overwritten; a failed assertion panics and nothing is returned.
WeightsInitialize(w) ==
    IF ~InUnit(w.distance_bg_bg_weight + w.distance_bg_fg_weight + w.distance_fg_fg_weight)
    THEN [ok |-> FALSE, value |-> w]
    ELSE IF ~InUnit(w.target_bg_weight + w.target_fg_weight)
    THEN [ok |-> FALSE, value |-> w]
    ELSE IF ~InUnit(w.contrast_bg_bg_weight + w.contrast_bg_fg_weight)
    THEN [ok |-> FALSE, value |-> w]
    ELSE [ok |-> TRUE,
          value |-> [w EXCEPT
                       !.distance_fg_fg_weight =
                           1000 - (w.distance_bg_bg_weight + w.distance_bg_fg_weight),
                       !.target_fg_weight = 1000 - w.target_bg_weight,
                       !.contrast_bg_fg_weight = 1000 - w.contrast_bg_bg_weight]]

-----------------------------------------------------------------------------
(* The functions on their own: one call of random_nearby_color, of         *)
(* ScaledCost::new (Cost::new), of Weights::initialize, of                 *)
(* ContrastRatio::cost, of contrast_cost, of get_closest_color, of         *)
(* State::new or of BackgroundColors::contrast_cost, on arguments drawn in *)
(* the initial state.                                                      *)

\* Channel values at and next to both limits, and one in the middle.
CallChannels == {0, 20, 500, 980, ONE}

\* Offsets in -WIGGLE..=WIGGLE: both ends, zero, and two in between.
CallOffsets == {-WIGGLE, -20, 0, 20, WIGGLE}

NearbyInputs ==
    [fn : {"random_nearby_color"},
     c : CallChannels \X CallChannels \X CallChannels,
     channel : Channels,
     offset : CallOffsets]

\* Values around 0.0 and around 100.0, and one in the middle, in hundredths.
CostInputs ==
    [fn : {"ScaledCost::new"},
     value : (-30..30) \cup {COST_MAX \div 2} \cup ((COST_MAX - 30)..(COST_MAX + 30))]

\* Weights whose groups sum to less than 0.99, to 0.99, 1.0 and 1.01, and to
\* more; the seven top-level weights play no part in initialize.
WeightsValues ==
    [contrast_weight : {1000}, distance_weight : {1000}, range_weight : {500},
     target_weight : {1000}, protanopia_weight : {330}, deuteranopia_weight : {330},
     tritanopia_weight : {330},
     distance_bg_bg_weight : {100, 600},
     distance_bg_fg_weight : {200, 410},
     distance_fg_fg_weight : {0, 189, 190, 390, 400, 700, 710, 711},
     target_bg_weight : {100, 1011},
     target_fg_weight : {0, 889, 890, 900, 910, 911},
     contrast_bg_bg_weight : {300},
     contrast_bg_fg_weight : {689, 690, 700, 710, 711}]

WeightsInputs == [fn : {"Weights::initialize"}, w : WeightsValues]

\* Contrast ratios in quarters from 1.0 to 21.0, and one beyond each end.
ContrastRatios == {75} \cup {RATIO_ONE + 25 * k : k \in 0..80} \cup {2125}

ContrastInputs ==
    [fn : {"ContrastRatio::cost", "contrast_cost"},
     value : ContrastRatios,
     need : ContrastNeeds]

\* The longest candidate list of a call of get_closest_color on its own.
MaxCandidates == 3

\* Candidates of which several are at the same distance from a color.
ClosestColors ==
    {<<500, 500, 500>>, <<600, 500, 500>>, <<500, 400, 500>>, <<0, 0, 0>>,
     <<ONE, ONE, ONE>>}

ClosestInputs ==
    [fn : {"get_closest_color"},
     c : {<<500, 500, 500>>, <<0, 0, 0>>, <<550, 450, 500>>},
     cs : UNION {[1..n -> ClosestColors] : n \in 0..MaxCandidates}]

\* Arguments of State::new: the backgrounds of both modes and a set with
\* another line_selection; every list of up to MaxFg of the first three
\* brand colors, the empty list included.
StateNewInputs ==
    [fn : {"State::new"},
     bg_colors : InitBackgrounds
                   \cup {[LightBackgrounds EXCEPT !.line_selection = <<850, 900, 950>>]},
     target_fg_colors : UNION {[1..n -> {BrandColors[k] : k \in 1..3}] : n \in 0..MaxFg}]

\* Backgrounds for BackgroundColors::contrast_cost: those of both modes, and
\* dark ones with a light line_selection.
ContrastBackgrounds ==
    InitBackgrounds \cup {[DarkBackgrounds EXCEPT !.line_selection = <<900, 900, 950>>]}

BackgroundContrastInputs ==
    [fn : {"BackgroundColors::contrast_cost"}, bg : ContrastBackgrounds]

\* The palette and the locals of optimize while a function is called on its
\* own: a palette as constructed, optimize not entered.
OptimizeNotEntered(st) ==
    /\ bg_colors = st.bg_colors
    /\ bg_color_array = st.bg_color_array
    /\ fg_colors = st.fg_colors
    /\ target_bg_colors = st.target_bg_colors
    /\ target_fg_colors = st.target_fg_colors
    /\ bufs = EmptyBufs
    /\ start_cost = ZeroCost
    /\ start_state = st
    /\ old_cost = ZeroCost
    /\ new_cost = ZeroCost
    /\ old_color = <<0, 0, 0>>
    /\ temperature = INITIAL_TEMPERATURE
    /\ n_iterations = 0
    /\ i = 0
    /\ pc = "not entered"
    /\ report = NoReport(st)
    /\ pre = [state |-> st, old_cost |-> ZeroCost, channel |-> 0, offset |-> 0,
              temperature |-> INITIAL_TEMPERATURE]
    /\ last = NoStep

CallInit ==
    /\ OptimizeNotEntered(StateNew(LightBackgrounds, SubSeq(BrandColors, 1, 2)))
    /\ input \in NearbyInputs \cup CostInputs \cup WeightsInputs \cup ContrastInputs
                \cup ClosestInputs \cup StateNewInputs
                \cup BackgroundContrastInputs
    /\ output = NoCall

CallRandomNearbyColor ==
    /\ input.fn = "random_nearby_color"
    /\ output = NoCall
    /\ output' = [fn |-> input.fn, ok |-> TRUE,
                  value |-> random_nearby_color(input.c, input.channel, input.offset)]
    /\ UNCHANGED <<stateVars, optVars, input>>

\* ScaledCost::new(value), and value() of what it returned.
CallScaledCostNew ==
    /\ input.fn = "ScaledCost::new"
    /\ output = NoCall
    /\ output' = [fn |-> input.fn, ok |-> ScaledCostNew(input.value).ok,
                  value |-> ScaledCostValue(ScaledCostNew(input.value))]
    /\ UNCHANGED <<stateVars, optVars, input>>

CallWeightsInitialize ==
    /\ input.fn = "Weights::initialize"
    /\ output = NoCall
    /\ output' = [fn |-> input.fn, ok |-> WeightsInitialize(input.w).ok,
                  value |-> WeightsInitialize(input.w).value]
    /\ UNCHANGED <<stateVars, optVars, input>>

\* cost() of a ContrastRatio whose fields are the input, and value() of the
\* ScaledCost it returned.
CallContrastRatioCost ==
    /\ input.fn = "ContrastRatio::cost"
    /\ output = NoCall
    /\ output' = [fn |-> input.fn, ok |-> ContrastRatioCost(input.value, input.need).ok,
                  value |-> ScaledCostValue(ContrastRatioCost(input.value, input.need))]
    /\ UNCHANGED <<stateVars, optVars, input>>

CallContrastCost ==
    /\ input.fn = "contrast_cost"
    /\ output = NoCall
    /\ output' = [fn |-> input.fn, ok |-> contrast_cost(input.value, input.need).ok,
                  value |-> contrast_cost(input.value, input.need).value]
    /\ UNCHANGED <<stateVars, optVars, input>>

CallGetClosestColor ==
    /\ input.fn = "get_closest_color"
    /\ output = NoCall
    /\ output' = [fn |-> input.fn, ok |-> get_closest_color(input.c, input.cs).ok,
                  value |-> get_closest_color(input.c, input.cs).value]
    /\ UNCHANGED <<stateVars, optVars, input>>

CallStateNew ==
    /\ input.fn = "State::new"
    /\ output = NoCall
    /\ output' = [fn |-> input.fn, ok |-> TRUE,
                  value |-> StateNew(input.bg_colors, input.target_fg_colors)]
    /\ UNCHANGED <<stateVars, optVars, input>>

\* contrast_cost() of the input backgrounds, value() of what it returned,
\* and the pairs it scored.
CallBackgroundContrastCost ==
    /\ input.fn = "BackgroundColors::contrast_cost"
    /\ output = NoCall
    /\ output' = [fn |-> input.fn, ok |-> BackgroundColorsContrastCost(input.bg).ok,
                  value |-> ScaledCostValue(BackgroundColorsContrastCost(input.bg)),
                  pairs |-> contrast_pairs]
    /\ UNCHANGED <<stateVars, optVars, input>>

CallNext ==
    \/ CallRandomNearbyColor
    \/ CallScaledCostNew
    \/ CallWeightsInitialize
    \/ CallContrastRatioCost
    \/ CallContrastCost
    \/ CallGetClosestColor
    \/ CallStateNew
    \/ CallBackgroundContrastCost

CallSpec == CallInit /\ [][CallNext]_vars

-----------------------------------------------------------------------------
(* Properties of State::optimize, checked under Spec.                      *)

\* C1: at every total_cost evaluation of optimize (pc "start", "eval" and
\* "report": the initial one, the one after a perturbation, the final one)
\* and at the end of every per-index step (pc "perturb" or "loop"), accepted
\* or rejected, each modifiable background of bg_color_array equals its
\* slot of bg_colors: bg_color_array[0] == bg_colors.line_selection.
DualViewAgreement ==
    pc \in {"start", "eval", "report", "perturb", "loop"} =>
        \A k \in 1..MODIFIABLE_COUNT : bg_color_array[k] = updateable_array(bg_colors)[k]

\* A background slot was perturbed to another color and is about to be scored.
BackgroundPerturbed ==
    /\ pc = "eval"
    /\ i >= Len(fg_colors)
    /\ bg_color_array[i - Len(fg_colors) + 1] # old_color
    /\ bg_colors.line_selection # pre.state.bg_colors.line_selection

DownhillAlwaysAccepted ==
    last.valid /\ last.delta <= 0 => last.accept /\ old_cost = new_cost

\* C6: a step that rejects its perturbation leaves the whole palette
\* (foreground colors, flat background array, semantic background slots)
\* and old_cost as they were when the step began.
RejectedStepRestores ==
    last.valid /\ ~last.accept => Self = pre.state /\ old_cost = pre.old_cost

\* A background step changed the color, scored worse, and was rejected.
BackgroundStepRejected ==
    /\ last.valid
    /\ ~last.accept
    /\ last.index >= Len(fg_colors)
    /\ last.delta > 0
    /\ pre.offset # 0

InUnitRange(c) == \A k \in 1..3 : 0 <= c[k] /\ c[k] <= ONE

AllInUnitRange(st) ==
    /\ \A k \in 1..Len(st.fg_colors) : InUnitRange(st.fg_colors[k])
    /\ \A k \in 1..Len(st.bg_color_array) : InUnitRange(st.bg_color_array[k])
    /\ \A k \in 1..COUNT : InUnitRange(into_array(st.bg_colors)[k])

\* C7: the initial palettes have every channel in [0, 1]; at every point of
\* optimize every channel of every foreground color, of every color of the
\* flat background array and of every semantic background slot is in
\* [0, 1], and so is every channel of the Report's final_state.
ChannelsInRange ==
    /\ AllInUnitRange(Self)
    /\ report.emitted => AllInUnitRange(report.final_state)

\* The offset would have left [0, 1] and the clamp held the channel at 1.0.
ClampedAtOne ==
    /\ pc = "eval"
    /\ old_color[pre.channel + 1] + pre.offset > ONE
    /\ color_slot(i)[pre.channel + 1] = ONE

-----------------------------------------------------------------------------
(* Properties of the cooling schedule, checked under CoolingSpec.          *)

\* The steps optimize has left: three per index of every sweep to come, one
\* per loop test, the Report, and the initial evaluation.
StepsLeft ==
    LET sweep == 3 * SlotCount + 1
        ahead == (LAST_SWEEP + 1 - n_iterations) * sweep + 2
    IN CASE pc = "start" -> ahead + 1
         [] pc = "loop" -> ahead
         [] pc = "perturb" -> ahead - (3 * i + 1)
         [] pc = "eval" -> ahead - (3 * i + 2)
         [] pc = "decide" -> ahead - (3 * i + 3)
         [] pc = "report" -> 1
         [] OTHER -> 0

\* C2: optimize terminates, in Done with its Report emitted: it never
\* panics, every step it takes lowers StepsLeft, which is never negative and
\* is 0 only in Done (optimize being one synchronous call, it keeps taking
\* steps until then); and the sweep count of the Report is the same number
\* for every palette size and every sequence of acceptance draws.
OptimizeTerminates ==
    /\ [](pc # "panicked" /\ StepsLeft >= 0 /\ (StepsLeft = 0 <=> pc = "done"))
    /\ [][StepsLeft' < StepsLeft]_vars
    /\ [](pc = "done" => report.emitted /\ report.n_iterations = LAST_SWEEP + 1)

\* The run of the longest palette returned, its last step a rejected one.
DoneAfterRejection ==
    /\ pc = "done"
    /\ report.emitted
    /\ Len(fg_colors) = MaxFg
    /\ last.valid
    /\ ~last.accept

\* C3, as the specification states it: the Report counts 1146 sweeps.
SweepCountIs1146 == report.emitted => report.n_iterations = 1146

\* C3, amended: with 1000.0, 0.99 and 0.0001 the Report counts 1604 sweeps,
\* ceil(ln(cutoff / initial) / ln(cooling_rate)) = ceil(1603.7): the
\* temperature is above the cutoff after 1603 coolings and not after 1604.
SweepCountIs1604 ==
    /\ report.emitted => report.n_iterations = 1604
    /\ (pc = "loop" /\ n_iterations = LAST_SWEEP) =>
           temperature = LAST_TEMPERATURE /\ F32Greater(temperature, CUTOFF)
    /\ (pc = "loop" /\ n_iterations > LAST_SWEEP) => ~F32Greater(temperature, CUTOFF)

\* The Report of the shortest palette, after 1604 sweeps.
ReportAfter1604 ==
    pc = "done" /\ report.emitted /\ report.n_iterations = 1604 /\ Len(fg_colors) = 2

\* The state LastSweepEntry starts from, reached by a whole run.
FinalSweepReached ==
    /\ pc = "loop"
    /\ n_iterations = LAST_SWEEP
    /\ temperature = LAST_TEMPERATURE
    /\ Self = start_state
    /\ old_cost = start_cost
    /\ new_cost = start_cost
    /\ old_color = bg_color_array[MODIFIABLE_COUNT]
    /\ i = SlotCount - 1
    /\ bufs = total_cost(start_state, EmptyBufs).bufs

-----------------------------------------------------------------------------
(* Properties of the functions on their own, checked under CallSpec.       *)

\* C8, as the specification states it: random_nearby_color returns a color
\* in which exactly one channel differs from the input.
ExactlyOneChannelDiffers ==
    output.fn = "random_nearby_color" =>
        Cardinality({k \in 1..3 : output.value[k] # input.c[k]}) = 1

\* C8, amended: for every color with channels in [0, 1], every channel and
\* every offset in [-0.05, 0.05], no channel but the drawn one differs from
\* the input, and the drawn one differs exactly when the offset is not 0.0
\* and does not push a channel already at a limit further out.
OnlyTheDrawnChannelDiffers ==
    output.fn = "random_nearby_color" =>
        /\ \A k \in 1..3 : k # input.channel + 1 => output.value[k] = input.c[k]
        /\ output.value[input.channel + 1] # input.c[input.channel + 1]
             <=> /\ input.offset # 0
                 /\ ~(input.c[input.channel + 1] = 0 /\ input.offset < 0)
                 /\ ~(input.c[input.channel + 1] = ONE /\ input.offset > 0)

\* A call with an offset other than 0.0 that returned its input.
NoChannelDiffers ==
    output.fn = "random_nearby_color" /\ input.offset # 0 /\ output.value = input.c

\* C9: when Weights::initialize returns, each partition of the result
\* (distance_bg_bg + distance_bg_fg + distance_fg_fg, target_bg + target_fg,
\* contrast_bg_bg + contrast_bg_fg) is within 0.01 of 1.0; and it fails when
\* one of these sums of the input is outside [0.99, 1.01].
WeightsPartitionsSumToOne ==
    output.fn = "Weights::initialize" =>
        /\ output.ok =>
             /\ Abs(output.value.distance_bg_bg_weight + output.value.distance_bg_fg_weight
                      + output.value.distance_fg_fg_weight - 1000) <= 10
             /\ Abs(output.value.target_bg_weight + output.value.target_fg_weight - 1000) <= 10
             /\ Abs(output.value.contrast_bg_bg_weight + output.value.contrast_bg_fg_weight
                      - 1000) <= 10
        /\ (\/ Abs(input.w.distance_bg_bg_weight + input.w.distance_bg_fg_weight
                     + input.w.distance_fg_fg_weight - 1000) > 10
            \/ Abs(input.w.target_bg_weight + input.w.target_fg_weight - 1000) > 10
            \/ Abs(input.w.contrast_bg_bg_weight + input.w.contrast_bg_fg_weight - 1000) > 10)
             => ~output.ok

\* initialize returned, and overwrote a derived weight with another value.
WeightsDerived ==
    output.fn = "Weights::initialize" /\ output.ok /\ output.value # input.w

\* C10: ScaledCost::new fails for every value below 0 or above 100; for
\* every value in [0, 100] it returns and value() is the value passed in;
\* so every ScaledCost that exists holds a value in [0, 100].
ScaledCostInRange ==
    output.fn = "ScaledCost::new" =>
        /\ (input.value < 0 \/ input.value > 10000) => ~output.ok
        /\ (0 <= input.value /\ input.value <= 10000) =>
               output.ok /\ output.value = input.value
        /\ output.ok => 0 <= output.value /\ output.value <= 10000

\* new returned for 100.0 itself.
ScaledCostAtLimit ==
    output.fn = "ScaledCost::new" /\ output.ok /\ input.value = 10000 /\ output.value = 10000

\* C11: ContrastRatio::cost fails for every ratio outside [1, 21]; for every
\* ratio in [1, 21] below the minimum ratio of the need (3.0 for Background,
\* 4.5 for Text) it returns a cost of exactly 100.
ContrastFloor ==
    output.fn = "ContrastRatio::cost" =>
        /\ (input.value < 100 \/ input.value > 2100) => ~output.ok
        /\ (100 <= input.value /\ input.value <= 2100
              /\ input.value < (IF input.need = "Background" THEN 300 ELSE 450))
             => output.ok /\ output.value = 10000

\* A ratio that suffices for a Background and is below the floor of a Text.
ContrastBelowTextFloor ==
    /\ output.fn = "ContrastRatio::cost"
    /\ input.need = "Text" /\ input.value = 425
    /\ output.ok /\ output.value = 10000

\* C12: for a ratio r1 at or above the minimum ratio of the need, the cost
\* of every larger ratio r2 up to 21 is below the cost of r1, with
\* ContrastRatio::cost and with contrast_cost.
ContrastCostDecreasing ==
    /\ (output.fn = "ContrastRatio::cost" /\ output.ok
          /\ input.value >= minimum_ratio(input.need)) =>
           \A r2 \in ContrastRatios :
               (input.value < r2 /\ r2 <= RATIO_MAX) =>
                   /\ ContrastRatioCost(r2, input.need).ok
                   /\ ContrastRatioCost(r2, input.need).value < output.value
    /\ (output.fn = "contrast_cost" /\ output.ok
          /\ input.value >= minimum_ratio(input.need)) =>
           \A r2 \in ContrastRatios :
               (input.value < r2 /\ r2 <= RATIO_MAX) =>
                   /\ contrast_cost(r2, input.need).ok
                   /\ contrast_cost(r2, input.need).value < output.value

\* C13: get_closest_color fails exactly for an empty candidate list; for a
\* non-empty one it returns a candidate at the least distance from c, the
\* first of the list at that distance; and for the list [c] it returns c.
ClosestIsFirstMinimal ==
    output.fn = "get_closest_color" =>
        /\ output.ok <=> Len(input.cs) > 0
        /\ output.ok =>
             \E k \in 1..Len(input.cs) :
                 /\ output.value = input.cs[k]
                 /\ \A j \in 1..Len(input.cs) :
                        distance(input.c, input.cs[j]) >= distance(input.c, input.cs[k])
                 /\ \A j \in 1..(k - 1) :
                        distance(input.c, input.cs[j]) > distance(input.c, input.cs[k])
        /\ input.cs = <<input.c>> => output.ok /\ output.value = input.c

\* Two different candidates at the least distance, the later one last in the
\* list: the earlier one was returned.
ClosestTieFirstReturned ==
    /\ output.fn = "get_closest_color" /\ output.ok
    /\ Len(input.cs) = MaxCandidates
    /\ \E j \in 1..(MaxCandidates - 1) :
           /\ input.cs[j] # input.cs[MaxCandidates]
           /\ distance(input.c, input.cs[j]) = distance(input.c, input.cs[MaxCandidates])
           /\ \A k \in 1..MaxCandidates :
                  distance(input.c, input.cs[k]) >= distance(input.c, input.cs[j])
           /\ output.value = input.cs[j]

-----------------------------------------------------------------------------
(* Further properties of State::optimize, checked under Spec.              *)

\* The range of the foreground-to-foreground distances of a palette as
\* Default vision sees it, from the palette alone.
DefaultRange(fgs) == max_minus_min(fg_mutual_distances(fgs)).value

\* C14: in every total_cost evaluation of optimize (the initial one, the one
\* of each per-index step, the final one) range_cost is max minus min of the
\* pairwise distances of the foreground colors of the palette evaluated, as
\* Default vision sees them: not what the evaluation before left in
\* bufs.fg_to_fg, and not what a Protanopia, Deuteranopia or Tritanopia step
\* writes there.
RangeCostFromDefaultDistances ==
    /\ pc \in {"loop", "perturb", "eval", "decide", "report", "done"} =>
           start_cost.range_cost = DefaultRange(start_state.fg_colors)
    /\ pc = "decide" => new_cost.range_cost = DefaultRange(fg_colors)
    /\ pc = "done" => report.final_cost.range_cost = DefaultRange(report.final_state.fg_colors)

\* An evaluation of a palette whose foreground was just perturbed, after
\* which bufs.fg_to_fg holds distances of another range than range_cost.
RangeDiffersFromLeftover ==
    /\ pc = "decide"
    /\ fg_colors # pre.state.fg_colors
    /\ new_cost.range_cost # pre.old_cost.range_cost
    /\ max_minus_min(bufs.fg_to_fg).value # new_cost.range_cost

\* The palette State::new built, recovered from what optimize never writes:
\* the targets, and the backgrounds that are not modifiable.
ConstructedPalette == StateNew(update(bg_colors, target_bg_colors), target_fg_colors)

\* C15: the Report optimize returns holds as start_state the palette as it
\* was constructed and as start_cost its total_cost, whatever the run did to
\* the palette since; as final_state the palette as it stands at the end and
\* as final_cost total_cost of that palette; and as n_iterations the number
\* of sweeps completed.
ReportFidelity ==
    pc = "done" =>
        /\ report.emitted
        /\ report.start_state = ConstructedPalette
        /\ report.start_cost = total_cost(ConstructedPalette, EmptyBufs).cost
        /\ report.final_state = Self
        /\ report.final_cost = total_cost(Self, EmptyBufs).cost
        /\ report.n_iterations = n_iterations
        /\ report.n_iterations = LAST_SWEEP + 1

\* A Report of a run that changed the palette and its cost.
ReportOfChangedPalette ==
    /\ pc = "done"
    /\ report.final_state # report.start_state
    /\ report.final_cost # report.start_cost
    /\ report.start_state = ConstructedPalette

\* C16: the index space of a sweep is len(fg_colors) + MODIFIABLE_COUNT,
\* the number of modifiable colors; index idx addresses foreground color idx
\* when idx < len(fg_colors) and bg_color_array[idx - len(fg_colors)]
\* otherwise, so a write through idx changes that one color and no other,
\* different indices address different colors, every modifiable color has
\* an index, and the index of every step of optimize is within bounds.
SlotAddressing ==
    /\ Len(bg_color_array) = MODIFIABLE_COUNT
    /\ SlotCount = Len(fg_colors) + Len(bg_color_array)
    /\ \A idx \in 0..(SlotCount - 1) :
           /\ idx < Len(fg_colors) => color_slot(idx) = fg_colors[idx + 1]
           /\ idx >= Len(fg_colors) =>
                  /\ idx - Len(fg_colors) < Len(bg_color_array)
                  /\ color_slot(idx) = bg_color_array[idx - Len(fg_colors) + 1]
           /\ SlotsWith(idx, NoColor).fg \o SlotsWith(idx, NoColor).arr
                = [(fg_colors \o bg_color_array) EXCEPT ![idx + 1] = NoColor]
    /\ pc \in {"perturb", "eval", "decide"} => i \in 0..(SlotCount - 1)
    /\ pc \in {"eval", "decide"} => old_color = (pre.state.fg_colors \o pre.state.bg_color_array)[i + 1]

\* A step through the first index beyond the foreground colors wrote the
\* flat background array and left the foreground colors alone.
BackgroundSlotWritten ==
    /\ pc = "eval"
    /\ i = Len(fg_colors)
    /\ bg_color_array[1] # old_color
    /\ bg_color_array[1] = random_nearby_color(old_color, pre.channel, pre.offset)
    /\ fg_colors = pre.state.fg_colors

-----------------------------------------------------------------------------
(* Further properties of the functions on their own, checked under CallSpec. *)

\* C17: the State that State::new(bg_colors, target_fg_colors) returns has
\* foreground colors equal to target_fg_colors element for element,
\* background targets equal to the modifiable backgrounds of bg_colors, and
\* a flat background array equal to the modifiable slots of its semantic
\* backgrounds, which are bg_colors.
StateNewMatchesArguments ==
    output.fn = "State::new" =>
        /\ Len(output.value.fg_colors) = Len(input.target_fg_colors)
        /\ \A k \in 1..Len(input.target_fg_colors) :
               output.value.fg_colors[k] = input.target_fg_colors[k]
        /\ output.value.target_fg_colors = input.target_fg_colors
        /\ output.value.target_bg_colors = <<input.bg_colors.line_selection>>
        /\ output.value.bg_colors = input.bg_colors
        /\ output.value.bg_color_array = <<output.value.bg_colors.line_selection>>

\* A State built from MaxFg targets and backgrounds whose modifiable slot
\* differs from the main background.
StateNewOfLongestList ==
    /\ output.fn = "State::new"
    /\ Len(input.target_fg_colors) = MaxFg
    /\ input.bg_colors.line_selection # input.bg_colors.main
    /\ output.value.fg_colors = input.target_fg_colors
    /\ output.value.bg_color_array = <<input.bg_colors.line_selection>>

-----------------------------------------------------------------------------
(* Further properties of a whole run, checked under CoolingSpec.           *)

\* C18: a sweep is entered at index 0, and only while temperature > CUTOFF;
\* every index is perturbed, scored and decided once before the next one,
\* which is the index plus one; the sweep ends after index SlotCount - 1;
\* the temperature changes at no other step than that end of a sweep, where
\* it is multiplied by COOLING_RATE once, becomes strictly lower, and the
\* sweep is counted.
SweepStructure ==
    [][/\ pc' = "perturb" =>
            \/ pc = "loop" /\ i' = 0 /\ F32Greater(temperature, CUTOFF)
            \/ pc = "decide" /\ i' = i + 1 /\ i' < SlotCount
       /\ pc = "perturb" => pc' = "eval" /\ i' = i /\ old_color' = color_slot(i)
       /\ pc = "eval" => pc' \in {"decide", "panicked"} /\ i' = i
       /\ pc = "decide" =>
            \/ pc' = "perturb" /\ i < SlotCount - 1
            \/ pc' = "loop" /\ i = SlotCount - 1
       /\ (pc = "decide" /\ i = SlotCount - 1) =>
            /\ temperature' = F32Mul(temperature, COOLING_RATE)
            /\ F32Greater(temperature, temperature')
            /\ n_iterations' = n_iterations + 1
       /\ ~(pc = "decide" /\ i = SlotCount - 1) =>
            /\ temperature' = temperature
            /\ n_iterations' = n_iterations
       /\ (pc = "loop" /\ ~F32Greater(temperature, CUTOFF)) => pc' = "report"
      ]_vars

\* The end of a sweep after the first one: the last index was decided, the
\* temperature is that of ten coolings and another sweep is due.
TenthSweepCooled ==
    /\ pc = "loop"
    /\ n_iterations = 10
    /\ last.valid /\ last.index = SlotCount - 1
    /\ F32Greater(INITIAL_TEMPERATURE, temperature)
    /\ F32Greater(temperature, CUTOFF)

-----------------------------------------------------------------------------
(* Further properties of random_nearby_color, checked under CallSpec.      *)

\* C19: for every color with channels in [0, 1], every drawn channel and
\* every offset in [-0.05, 0.05], random_nearby_color returns the two
\* channels not drawn unchanged, and the drawn one as old + offset clamped
\* to [0, 1]: at most one channel differs, by at most 0.05, and stays in
\* [0, 1].
NearbyFrame ==
    output.fn = "random_nearby_color" =>
        LET old == input.c[input.channel + 1]
            new == output.value[input.channel + 1]
        IN /\ \A k \in 1..3 : k # input.channel + 1 => output.value[k] = input.c[k]
           /\ new = IF old + input.offset < 0 THEN 0
                    ELSE IF old + input.offset > 1000 THEN 1000
                    ELSE old + input.offset
           /\ Cardinality({k \in 1..3 : output.value[k] # input.c[k]}) <= 1
           /\ Abs(new - old) <= 50
           /\ 0 <= new /\ new <= 1000

\* A drawn channel that the clamp stopped at 1.0, short of old + offset.
NearbyStoppedByClamp ==
    /\ output.fn = "random_nearby_color"
    /\ input.c[input.channel + 1] = 980 /\ input.offset = WIGGLE
    /\ output.value[input.channel + 1] = ONE
    /\ \A k \in 1..3 : k # input.channel + 1 => output.value[k] = input.c[k]

-----------------------------------------------------------------------------
(* The cost bookkeeping of State::optimize, checked under Spec.           *)

\* C20: before the first per-index step of optimize and at the end of every
\* one (pc "perturb" or "loop"), accepted or rejected, old_cost is total_cost
\* of the palette as it stands; the delta of a step is the total of the
\* candidate's cost minus the total of that old_cost; and the total of the
\* Report's final_cost is the total of the last old_cost.
OldCostIsCostOfPalette ==
    /\ pc \in {"perturb", "loop"} => old_cost = total_cost(Self, EmptyBufs).cost
    /\ (pc \in {"perturb", "loop"} /\ last.valid) =>
           last.delta = Total(new_cost) - Total(pre.old_cost)
    /\ pc = "done" => Total(report.final_cost) = Total(old_cost)

\* The end of a rejected step whose candidate cost differed: old_cost is
\* still the cost recorded before the step.
OldCostKeptAfterRejection ==
    /\ pc \in {"perturb", "loop"}
    /\ last.valid /\ ~last.accept
    /\ new_cost # old_cost
    /\ old_cost = pre.old_cost

-----------------------------------------------------------------------------
(* The frame of State::optimize, checked under Spec.                       *)

\* The semantic background slots that update never writes.
FixedSlots == {"main", "range_selection", "git_added", "git_line_selection", "git_deleted"}

\* C21: no step of optimize changes the target foreground colors, the target
\* background colors, a semantic background slot other than line_selection,
\* or the number of foreground or flat background colors; a perturbation or
\* a decision at index i changes no color at another index, and the semantic
\* backgrounds only when i is a background index; an evaluation of
\* total_cost, the loop test and the Report change no color of the palette.
RunFrame ==
    [][/\ target_fg_colors' = target_fg_colors
       /\ target_bg_colors' = target_bg_colors
       /\ \A slot \in FixedSlots : bg_colors'[slot] = bg_colors[slot]
       /\ Len(fg_colors') = Len(fg_colors)
       /\ Len(bg_color_array') = Len(bg_color_array)
       /\ pc \in {"perturb", "decide"} =>
            /\ \A k \in 1..SlotCount :
                   k # i + 1 => (fg_colors' \o bg_color_array')[k]
                                  = (fg_colors \o bg_color_array)[k]
            /\ i < Len(fg_colors) => bg_colors' = bg_colors
            /\ i >= Len(fg_colors) =>
                   bg_colors'.line_selection = bg_color_array'[i - Len(fg_colors) + 1]
       /\ pc \in {"start", "loop", "eval", "report"} =>
            /\ fg_colors' = fg_colors
            /\ bg_color_array' = bg_color_array
            /\ bg_colors' = bg_colors
      ]_vars

\* The end of a run that moved a foreground color and the modifiable
\* background, with the targets and the main background as constructed.
RunMovedOnlyModifiable ==
    /\ pc = "done"
    /\ fg_colors # start_state.fg_colors
    /\ bg_colors.line_selection # start_state.bg_colors.line_selection
    /\ bg_colors.main = start_state.bg_colors.main
    /\ target_fg_colors = start_state.fg_colors
    /\ target_bg_colors = <<start_state.bg_colors.line_selection>>

-----------------------------------------------------------------------------
(* Weights::initialize and non-negative weights, checked under CallSpec.   *)

WeightNames ==
    {"contrast_weight", "distance_weight", "range_weight", "target_weight",
     "protanopia_weight", "deuteranopia_weight", "tritanopia_weight",
     "distance_bg_bg_weight", "distance_bg_fg_weight", "distance_fg_fg_weight",
     "target_bg_weight", "target_fg_weight",
     "contrast_bg_bg_weight", "contrast_bg_fg_weight"}

\* C22: when Weights::initialize returns for an input whose fourteen weights
\* are all non-negative, every weight of the result is non-negative, the
\* derived distance_fg_fg_weight, target_fg_weight and contrast_bg_fg_weight
\* included.
WeightsStayNonNegative ==
    (/\ output.fn = "Weights::initialize"
     /\ output.ok
     /\ \A n \in WeightNames : input.w[n] >= 0)
        => \A n \in WeightNames : output.value[n] >= 0

-----------------------------------------------------------------------------
(* Determinism of State::optimize, checked under Spec.                     *)

\* The colors of a palette in index order: foreground, then flat background.
Slots(st) == st.fg_colors \o st.bg_color_array

\* The candidate of the step that just ended, from the palette the step
\* began with and the two draws of random_nearby_color.
CandidateSlots ==
    [Slots(pre.state) EXCEPT
       ![last.index + 1] = random_nearby_color(@, pre.channel, pre.offset)]

\* C23: a step of optimize is a function of the state it begins with and of
\* the three values it draws, so two runs from equal palettes on the same
\* RNG stream agree step by step.  At the end of every step the decision is
\* the one the acceptance draw, the delta and the temperature fix; the
\* palette is the candidate when accepted and the palette the step began
\* with when rejected, old_cost likewise; the step has made three gen_range
\* calls (channel, offset, acceptance) whatever the decision; and the Report
\* holds the palette and the sweep count the run ended with.
StepIsFunctionOfDraws ==
    /\ (pc \in {"perturb", "loop"} /\ last.valid) =>
           /\ last.draws = 3
           /\ last.delta = Total(new_cost) - Total(pre.old_cost)
           /\ last.accept <=> Accept(last.draw, last.delta, pre.temperature)
           /\ last.accept =>
                  /\ Slots(Self) = CandidateSlots
                  /\ old_cost = new_cost
           /\ ~last.accept =>
                  /\ Self = pre.state
                  /\ old_cost = pre.old_cost
           /\ bg_colors = update(pre.state.bg_colors, bg_color_array)
    /\ pc \in {"eval", "decide"} => last.draws = 2
    /\ pc = "done" =>
           /\ report.final_state = Self
           /\ report.n_iterations = n_iterations
           /\ Total(report.final_cost) = Total(old_cost)

\* A step that changed the palette without raising the cost and was
\* accepted, after three gen_range calls.
DownhillStepDrewThree ==
    /\ pc \in {"perturb", "loop"}
    /\ last.valid /\ last.accept /\ last.delta <= 0
    /\ last.draws = 3
    /\ Slots(Self) # Slots(pre.state)

-----------------------------------------------------------------------------
(* BackgroundColors::contrast_cost, checked under CallSpec.                *)

SemanticSlots ==
    {"main", "range_selection", "line_selection", "git_added", "git_line_selection",
     "git_deleted"}

\* C24: BackgroundColors::contrast_cost scores every unordered pair of
\* different semantic background slots exactly once, and returns a cost
\* in [0, 100].
ContrastScoresEveryPair ==
    (output.fn = "BackgroundColors::contrast_cost" /\ output.ok) =>
        /\ \A a \in SemanticSlots : \A b \in SemanticSlots \ {a} :
               Cardinality({k \in 1..Len(output.pairs) :
                               {output.pairs[k][1], output.pairs[k][2]} = {a, b}}) = 1
        /\ 0 <= output.value /\ output.value <= 10000

=============================================================================
